---- MODULE Spec2Model ----
(***************************************************************************)
(* A model of the MediaInfo text parser of src/mediainfo.ts.               *)
(*                                                                         *)
(* A JavaScript string is a sequence of one-character strings, so that     *)
(* split, trim, replace, toLowerCase, includes, startsWith, parseInt,      *)
(* parseFloat and the regular expressions of the parser are computed on    *)
(* the characters, as the program computes them.                           *)
(*                                                                         *)
(* A JavaScript number is a record [nan, neg, mag]: NaN, or a sign and a   *)
(* magnitude in thousandths, written in base 1000 with the least           *)
(* significant limb first (limb 1 is the fraction, the other limbs are the *)
(* integer part).  Arithmetic is exact: the inputs of the model have at    *)
(* most three decimals and no exponent, and the binary rounding of IEEE    *)
(* doubles is not modelled.                                                *)
(***************************************************************************)
EXTENDS Integers, Sequences, FiniteSets, TLC

VARIABLES
    text,            \* text[c]: the lines of the input of call c (text.split('\n'))
    pos,             \* pos[c]: index of the line the for-of loop of call c handles next
    pc,              \* pc[c]: "idle", "loop", "done" or "error" (an exception left the call)
    currentSection,  \* currentSection[m]: the `let currentSection` kept in memory cell m
    trackIndex,      \* trackIndex[m]: the `let trackIndex` kept in memory cell m
    result,          \* result[m]: the `const result` kept in memory cell m
    arg,             \* the argument of a call of one of the value helpers
    ret              \* <<>> before the helper returns, <<value>> after

vars == <<text, pos, pc, currentSection, trackIndex, result, arg, ret>>

-----------------------------------------------------------------------------
(* Characters and strings *)

DigitChars == <<"0", "1", "2", "3", "4", "5", "6", "7", "8", "9">>

UpperChars ==
    <<"A", "B", "C", "D", "E", "F", "G", "H", "I", "J", "K", "L", "M",
      "N", "O", "P", "Q", "R", "S", "T", "U", "V", "W", "X", "Y", "Z">>

LowerChars ==
    <<"a", "b", "c", "d", "e", "f", "g", "h", "i", "j", "k", "l", "m",
      "n", "o", "p", "q", "r", "s", "t", "u", "v", "w", "x", "y", "z">>

IsDigit(c) == \E i \in DOMAIN DigitChars : DigitChars[i] = c

DigitVal(c) == (CHOOSE i \in DOMAIN DigitChars : DigitChars[i] = c) - 1

IsUpper(c) == \E i \in DOMAIN UpperChars : UpperChars[i] = c

IsLetter(c) == IsUpper(c) \/ \E i \in DOMAIN LowerChars : LowerChars[i] = c

\* \s of a regular expression and the white space of trim, parseInt, parseFloat
IsSpace(c) == c \in {" ", "\t"}

LowerChar(c) ==
    IF IsUpper(c) THEN LowerChars[CHOOSE i \in DOMAIN UpperChars : UpperChars[i] = c]
    ELSE c

ToLowerCase(s) == [i \in 1..Len(s) |-> LowerChar(s[i])]

Includes(s, sub) ==
    \E i \in 0..(Len(s) - Len(sub)) : SubSeq(s, i + 1, i + Len(sub)) = sub

StartsWith(s, p) == Len(p) <= Len(s) /\ SubSeq(s, 1, Len(p)) = p

IsBlank(s) == \A i \in 1..Len(s) : IsSpace(s[i])

Trim(s) ==
    IF IsBlank(s) THEN <<>>
    ELSE LET a == CHOOSE i \in 1..Len(s) :
                      ~IsSpace(s[i]) /\ \A j \in 1..(i - 1) : IsSpace(s[j])
             b == CHOOSE i \in 1..Len(s) :
                      ~IsSpace(s[i]) /\ \A j \in (i + 1)..Len(s) : IsSpace(s[j])
         IN  SubSeq(s, a, b)

TrimStart(s) ==
    IF IsBlank(s) THEN <<>>
    ELSE LET a == CHOOSE i \in 1..Len(s) :
                      ~IsSpace(s[i]) /\ \A j \in 1..(i - 1) : IsSpace(s[j])
         IN  SubSeq(s, a, Len(s))

\* s.replace(/,/g, '')
RemoveCommas(s) == SelectSeq(s, LAMBDA c : c # ",")

\* a variant of RemoveSpaces that leaves the string as it is
RemoveSpaces_Kept(s) == s

\* s.replace(/\s/g, '')
RemoveSpaces(s) == SelectSeq(s, LAMBDA c : ~IsSpace(c))

\* s.split(sep) for a separator that is one character of seps: the pieces
\* between the separators, empty pieces included
RECURSIVE Split(_, _)
Split(s, seps) ==
    IF \A i \in 1..Len(s) : s[i] \notin seps THEN <<s>>
    ELSE LET i == CHOOSE k \in 1..Len(s) :
                      s[k] \in seps /\ \A j \in 1..(k - 1) : s[j] \notin seps
         IN  <<SubSeq(s, 1, i - 1)>> \o Split(SubSeq(s, i + 1, Len(s)), seps)

\* the longest run of digits of s that starts at index i
RECURSIVE DigitRun(_, _)
DigitRun(s, i) ==
    IF i <= Len(s) /\ IsDigit(s[i]) THEN <<s[i]>> \o DigitRun(s, i + 1) ELSE <<>>

\* an optional value: parts[1] of a split, x?.f(...)
Undefined == [def |-> FALSE, s |-> <<>>]

Defined(s) == [def |-> TRUE, s |-> s]

-----------------------------------------------------------------------------
(* Natural numbers in base 1000, least significant limb first, no leading  *)
(* zero limb; zero is the empty sequence.                                  *)

RECURSIVE BigNorm(_)
BigNorm(a) ==
    IF Len(a) > 0 /\ a[Len(a)] = 0 THEN BigNorm(SubSeq(a, 1, Len(a) - 1)) ELSE a

RECURSIVE BigAddC(_, _, _)
BigAddC(a, b, carry) ==
    IF Len(a) = 0 /\ Len(b) = 0 THEN (IF carry = 0 THEN <<>> ELSE <<carry>>)
    ELSE LET x == IF Len(a) = 0 THEN 0 ELSE Head(a)
             y == IF Len(b) = 0 THEN 0 ELSE Head(b)
             t == x + y + carry
         IN  <<t % 1000>> \o BigAddC(IF Len(a) = 0 THEN a ELSE Tail(a),
                                     IF Len(b) = 0 THEN b ELSE Tail(b),
                                     t \div 1000)

BigAdd(a, b) == BigNorm(BigAddC(a, b, 0))

\* a - b for a >= b
RECURSIVE BigSubC(_, _, _)
BigSubC(a, b, borrow) ==
    IF Len(a) = 0 THEN <<>>
    ELSE LET y == IF Len(b) = 0 THEN 0 ELSE Head(b)
             t == Head(a) - y - borrow
         IN  <<IF t < 0 THEN t + 1000 ELSE t>>
                 \o BigSubC(Tail(a), IF Len(b) = 0 THEN b ELSE Tail(b),
                            IF t < 0 THEN 1 ELSE 0)

BigSub(a, b) == BigNorm(BigSubC(a, b, 0))

RECURSIVE BigLess(_, _)
BigLess(a, b) ==
    IF Len(a) # Len(b) THEN Len(a) < Len(b)
    ELSE IF Len(a) = 0 THEN FALSE
    ELSE IF a[Len(a)] # b[Len(b)] THEN a[Len(a)] < b[Len(b)]
    ELSE BigLess(SubSeq(a, 1, Len(a) - 1), SubSeq(b, 1, Len(b) - 1))

\* a * m for 0 <= m < 1000000
RECURSIVE BigMulSmallC(_, _, _)
BigMulSmallC(a, m, carry) ==
    IF Len(a) = 0 THEN (IF carry = 0 THEN <<>>
                        ELSE <<carry % 1000>> \o BigMulSmallC(a, m, carry \div 1000))
    ELSE LET t == Head(a) * m + carry
         IN  <<t % 1000>> \o BigMulSmallC(Tail(a), m, t \div 1000)

BigMulSmall(a, m) == BigNorm(BigMulSmallC(a, m, 0))

RECURSIVE BigMul(_, _)
BigMul(a, b) ==
    IF Len(b) = 0 \/ Len(a) = 0 THEN <<>>
    ELSE BigAdd(BigMulSmall(a, Head(b)), BigNorm(<<0>> \o BigMul(a, Tail(b))))

RECURSIVE ToBig(_)
ToBig(n) == IF n = 0 THEN <<>> ELSE <<n % 1000>> \o ToBig(n \div 1000)

RECURSIVE BigPow(_, _)
BigPow(a, n) == IF n = 0 THEN <<1>> ELSE BigMul(a, BigPow(a, n - 1))

\* the number written by a string of decimal digits
RECURSIVE BigOfDigits(_)
BigOfDigits(ds) ==
    IF Len(ds) = 0 THEN <<>>
    ELSE BigAdd(BigMulSmall(BigOfDigits(SubSeq(ds, 1, Len(ds) - 1)), 10),
                ToBig(DigitVal(ds[Len(ds)])))

-----------------------------------------------------------------------------
(* JavaScript numbers *)

NaN == [nan |-> TRUE, neg |-> FALSE, mag |-> <<>>]

\* sign and magnitude in thousandths; -0 and 0 are the same value
Num(neg, mag) == [nan |-> FALSE, neg |-> (neg /\ Len(mag) > 0), mag |-> mag]

\* the integer n >= 0 as a number
Integer(n) == Num(FALSE, BigNorm(<<0>> \o ToBig(n)))

\* the thousandths written by the first three digits of a fraction
Millis(ds) ==
    LET d(i) == IF i <= Len(ds) THEN DigitVal(ds[i]) ELSE 0
    IN  100 * d(1) + 10 * d(2) + d(3)

\* parseFloat(s): white space, a sign, digits, a period and digits
parseFloat(s) ==
    LET t    == TrimStart(s)
        sgn  == Len(t) > 0 /\ t[1] \in {"+", "-"}
        i0   == IF sgn THEN 2 ELSE 1
        ip   == DigitRun(t, i0)
        dot  == i0 + Len(ip)
        fp   == IF dot <= Len(t) /\ t[dot] = "." THEN DigitRun(t, dot + 1) ELSE <<>>
    IN  IF Len(ip) = 0 /\ Len(fp) = 0 THEN NaN
        ELSE Num(sgn /\ t[1] = "-", BigNorm(<<Millis(fp)>> \o BigOfDigits(ip)))

\* parseInt(s, 10): white space, a sign, digits
parseInt(s) ==
    LET t    == TrimStart(s)
        sgn  == Len(t) > 0 /\ t[1] \in {"+", "-"}
        ip   == DigitRun(t, IF sgn THEN 2 ELSE 1)
    IN  IF Len(ip) = 0 THEN NaN
        ELSE Num(sgn /\ t[1] = "-", BigNorm(<<0>> \o BigOfDigits(ip)))

\* x * k for a natural number k given in base 1000
Times(x, k) == IF x.nan THEN NaN ELSE Num(x.neg, BigMul(x.mag, k))

\* x + y
Plus(x, y) ==
    IF x.nan \/ y.nan THEN NaN
    ELSE IF x.neg = y.neg THEN Num(x.neg, BigAdd(x.mag, y.mag))
    ELSE IF BigLess(x.mag, y.mag) THEN Num(y.neg, BigSub(y.mag, x.mag))
    ELSE Num(x.neg, BigSub(x.mag, y.mag))

\* Math.round(x): the nearest integer, a half rounded towards +Infinity
MathRound(x) ==
    IF x.nan THEN NaN
    ELSE LET frac == IF Len(x.mag) = 0 THEN 0 ELSE x.mag[1]
             ip   == IF Len(x.mag) = 0 THEN <<>> ELSE Tail(x.mag)
             up   == IF x.neg THEN frac > 500 ELSE frac >= 500
             r    == IF up THEN BigAdd(ip, <<1>>) ELSE ip
         IN  Num(x.neg, BigNorm(<<0>> \o r))

-----------------------------------------------------------------------------
(* The value helpers *)

\* the own properties of the object literal `powers`
powers ==
    { <<<<"b">>, 0>>,
      <<<<"k","i","b">>, 1>>, <<<<"m","i","b">>, 2>>, <<<<"g","i","b">>, 3>>, <<<<"t","i","b">>, 4>>,
      <<<<"k","b">>, 1>>, <<<<"m","b">>, 2>>, <<<<"g","b">>, 3>>, <<<<"t","b">>, 4>> }

\* the all-lower-case property names `powers` inherits from Object.prototype;
\* their values are objects, not numbers
ObjectPrototypeKeys == { <<"c","o","n","s","t","r","u","c","t","o","r">>, <<"_","_","p","r","o","t","o","_","_">> }

\* powers[unit] || 0: a number, or "object" for an inherited property
PowerOf(unit) ==
    LET key == IF unit.def THEN unit.s ELSE <<"u","n","d","e","f","i","n","e","d">>
    IN  IF \E e \in powers : e[1] = key
        THEN [kind |-> "number", n |-> (CHOOSE e \in powers : e[1] = key)[2]]
        ELSE IF key \in ObjectPrototypeKeys
        THEN [kind |-> "object", n |-> 0]
        ELSE [kind |-> "number", n |-> 0]

\* unit?.includes('ib') ? 1024 : 1000
Multiplier(unit) == IF unit.def /\ Includes(unit.s, <<"i","b">>) THEN 1024 ELSE 1000

\* value * (multiplier ** power); an exponent that is no number gives NaN
Scaled(value, multiplier, power) ==
    IF power.kind # "number" THEN NaN
    ELSE Times(value, BigPow(ToBig(multiplier), power.n))

parseSize(sizeStr) ==
    LET parts == Split(sizeStr, {" "})
        value == parseFloat(RemoveCommas(parts[1]))
        unit  == IF Len(parts) >= 2 THEN Defined(ToLowerCase(parts[2])) ELSE Undefined
    IN  MathRound(Scaled(value, Multiplier(unit), PowerOf(unit)))

\* a variant of DurationFactor that takes every unit in 'm' for minutes
DurationFactor_MinutesByM(unit) ==
    IF ~unit.def THEN 0
    ELSE IF StartsWith(unit.s, <<"h">>) THEN 3600000
    ELSE IF StartsWith(unit.s, <<"m">>) THEN 60000
    ELSE IF StartsWith(unit.s, <<"s">>) THEN 1000
    ELSE 0

\* the if-else chain of parseDuration: the milliseconds of one unit, 0 for no branch
DurationFactor(unit) ==
    IF ~unit.def THEN 0
    ELSE IF StartsWith(unit.s, <<"h">>) THEN 3600000
    ELSE IF StartsWith(unit.s, <<"m","i","n">>) THEN 60000
    ELSE IF StartsWith(unit.s, <<"s">>) THEN 1000
    ELSE IF StartsWith(unit.s, <<"m","s">>) THEN 1
    ELSE 0

\* the for loop of parseDuration from index i (1-based) with the running total
RECURSIVE DurationLoop(_, _, _)
DurationLoop(parts, i, totalMs) ==
    IF i > Len(parts) THEN totalMs
    ELSE LET value == parseInt(parts[i])
             unit  == IF i + 1 <= Len(parts) THEN Defined(parts[i + 1]) ELSE Undefined
             f     == DurationFactor(unit)
         IN  DurationLoop(parts, i + 2,
                          IF f = 0 THEN totalMs
                          ELSE Plus(totalMs, Times(value, ToBig(f))))

parseDuration(durationStr) == DurationLoop(Split(durationStr, {" "}), 1, Integer(0))

\* the factor parseBitRate applies to the cleaned string
BitRateFactor(cleanStr) ==
    IF Includes(cleanStr, <<"m","b","/","s">>) THEN 1000000
    ELSE IF Includes(cleanStr, <<"k","b","/","s">>) THEN 1000
    ELSE 1

\* a variant of BitRateClean that keeps the white space
BitRateClean_KeepSpaces(bitrateStr) == ToLowerCase(bitrateStr)

\* bitrateStr.replace(/\s/g, '').toLowerCase()
BitRateClean(bitrateStr) == ToLowerCase(RemoveSpaces(bitrateStr))

parseBitRate(bitrateStr) ==
    LET cleanStr == BitRateClean(bitrateStr)
        value    == parseFloat(cleanStr)
    IN  MathRound(Times(value, ToBig(BitRateFactor(cleanStr))))

\* a variant of FrequencyFactor that compares the letters as they are
FrequencyFactor_CaseSensitive(frequencyStr) ==
    IF Includes(frequencyStr, <<"k","h","z">>) THEN 1000
    ELSE IF Includes(frequencyStr, <<"m","h","z">>) THEN 1000000
    ELSE 1

\* the factor parseFrequency applies
FrequencyFactor(frequencyStr) ==
    IF Includes(ToLowerCase(frequencyStr), <<"k","h","z">>) THEN 1000
    ELSE IF Includes(ToLowerCase(frequencyStr), <<"m","h","z">>) THEN 1000000
    ELSE 1

parseFrequency(frequencyStr) ==
    LET value == parseFloat(RemoveSpaces(frequencyStr))
    IN  MathRound(Times(value, ToBig(FrequencyFactor(frequencyStr))))

\* new Date(dateStr): the date object of the string
parseDate(dateStr) == [date |-> dateStr]

-----------------------------------------------------------------------------
(* Calls of the value helpers, one specification per helper: the argument  *)
(* is drawn from a bounded set of strings and the action applies the       *)
(* helper to it.                                                           *)

Calls == {1, 2}

NoText == [c \in Calls |-> <<>>]

\* the decimal digits of n >= 0
RECURSIVE DigitsOf(_)
DigitsOf(n) ==
    IF n < 10 THEN <<DigitChars[n + 1]>>
    ELSE DigitsOf(n \div 10) \o <<DigitChars[(n % 10) + 1]>>

MaxSizeInt == 3
MaxPairs == 2
MaxRateInt == 3
MaxFreqInt == 3

Fractions == { <<>>, <<".","5">>, <<".","2","5">>, <<".","4","9","9">>, <<".","0">> }

SizeNumbers ==
    { DigitsOf(i) \o f : i \in 0..MaxSizeInt, f \in Fractions }
        \cup { <<"1",".","5","0">>, <<"6",".","1","0">>, <<"3","9","3">>, <<"1",",","0","2","4">>, <<"2",",","0","0","0",".","5">>, <<"1",",","0","0","0",",","0","0","0">> }

SizeUnits ==
    { <<"B">>, <<"K","i","B">>, <<"K","B">>, <<"M","i","B">>, <<"M","B">>, <<"G","i","B">>, <<"G","B">>, <<"T","i","B">>, <<"T","B">>,
      <<"b">>, <<"k","i","b">>, <<"K","b">>, <<"M","I","B">>, <<"m","b">>, <<"g","i","b">>, <<"g","B">>, <<"T","I","B">>, <<"t","b">>,
      <<"b","y","t","e","s">>, <<"P","i","B">>, <<"x","i","b">>, <<"c","o","n","s","t","r","u","c","t","o","r">> }

SizeInputs ==
    { n \o <<" ">> \o u : n \in SizeNumbers, u \in SizeUnits } \cup SizeNumbers

DurationInts == { <<"0">>, <<"1">>, <<"4","5">>, <<"3","0">>, <<"1","0","0">> }

DurationUnits == { <<"h">>, <<"m","i","n">>, <<"s">>, <<"m","s">>, <<"h","o","u","r","s">>, <<"m","n">>, <<"s","e","c">>, <<"m">>, <<"d">> }

DurationPairs == { n \o <<" ">> \o u : n \in DurationInts, u \in DurationUnits }

RECURSIVE DurationInputsOf(_)
DurationInputsOf(k) ==
    IF k = 1 THEN DurationPairs
    ELSE { p \o <<" ">> \o q : p \in DurationInputsOf(k - 1), q \in DurationPairs }

DurationInputs == UNION { DurationInputsOf(k) : k \in 1..MaxPairs }

RateNumbers ==
    { DigitsOf(i) \o f : i \in 0..MaxRateInt, f \in Fractions }
        \cup { <<"3","6",".","6">>, <<"2","3","0","4">>, <<"2"," ","3","0","4">>, <<"1"," ","5","3","6">>, <<"1","2","8">> }

RateUnits == { <<" ","M","b","/","s">>, <<" ","k","b","/","s">>, <<" ","b","/","s">>, <<>>, <<"M","b","/","s">>, <<" ","M","B","/","S">>, <<" ","K","b","/","s">>, <<" ","m","b","/","s">>, <<" ","K","B","/","S">> }

BitRateInputs == { n \o u : n \in RateNumbers, u \in RateUnits }

FreqNumbers ==
    { DigitsOf(i) \o f : i \in 0..MaxFreqInt, f \in Fractions }
        \cup { <<"4","8",".","0">>, <<"4","4",".","1">>, <<"2","2"," ","0","5","0">>, <<"9","6">> }

FreqUnits == { <<" ","k","H","z">>, <<" ","M","H","z">>, <<" ","H","z">>, <<>>, <<"k","H","z">>, <<" ","K","H","Z">>, <<" ","k","h","z">>, <<" ","m","h","z">>, <<" ","M","h","z">> }

FrequencyInputs == { n \o u : n \in FreqNumbers, u \in FreqUnits }

-----------------------------------------------------------------------------
(* parseMediaInfo: the line patterns *)

SectionNames == { <<"G","e","n","e","r","a","l">>, <<"V","i","d","e","o">>, <<"A","u","d","i","o">>, <<"T","e","x","t">>, <<"M","e","n","u">> }

\* line.match(/^(General|Video|Audio|Text|Menu)(?: #\d+)?$/): group 1, if any
SectionMatch(line) ==
    LET ok(n) == \/ line = n
                 \/ /\ StartsWith(line, n \o <<" ","#">>)
                    /\ Len(line) >= Len(n) + 3
                    /\ \A i \in (Len(n) + 3)..Len(line) : IsDigit(line[i])
    IN  IF \E n \in SectionNames : ok(n)
        THEN Defined(CHOOSE n \in SectionNames : ok(n))
        ELSE Undefined

\* \d{2}:\d{2}:\d{2}.\d{3} at index i of the line (the . is any character)
TimestampAt(line, i) ==
    /\ i + 11 <= Len(line)
    /\ \A k \in {0, 1, 3, 4, 6, 7, 9, 10, 11} : IsDigit(line[i + k])
    /\ line[i + 2] = ":"
    /\ line[i + 5] = ":"

\* the index just after the longest run of white space that starts at index i
RECURSIVE SkipSpaces(_, _)
SkipSpaces(line, i) ==
    IF i <= Len(line) /\ IsSpace(line[i]) THEN SkipSpaces(line, i + 1) ELSE i

\* the indexes of the colons of the line from index i on
ColonsFrom(line, i) == { k \in i..Len(line) : line[k] = ":" }

\* the rest of /(\d{2}:\d{2}:\d{2}.\d{3})\s+:\s+.*?:(.*)/ after a timestamp at i:
\* white space, a colon, white space, then the lazy .*? up to the next colon
ChapterAt(line, i) ==
    /\ TimestampAt(line, i)
    /\ LET a == SkipSpaces(line, i + 12)
           b == SkipSpaces(line, a + 1)
       IN  /\ a > i + 12
           /\ a <= Len(line)
           /\ line[a] = ":"
           /\ b > a + 1
           /\ ColonsFrom(line, b) # {}

Min(S) == CHOOSE x \in S : \A y \in S : x <= y

\* a variant of ChapterMatch whose .* before the last colon is greedy
ChapterMatch_Greedy(line) ==
    LET starts == { i \in 1..Len(line) : ChapterAt(line, i) }
    IN  IF starts = {} THEN [def |-> FALSE, stamp |-> <<>>, title |-> <<>>]
        ELSE LET i == Min(starts)
                 m == CHOOSE k \in ColonsFrom(line, 1) : \A j \in ColonsFrom(line, 1) : j <= k
             IN  [def |-> TRUE,
                  stamp |-> SubSeq(line, i, i + 11),
                  title |-> SubSeq(line, m + 1, Len(line))]

\* line.match(/(\d{2}:\d{2}:\d{2}.\d{3})\s+:\s+.*?:(.*)/): groups 1 and 2, if any
ChapterMatch(line) ==
    LET starts == { i \in 1..Len(line) : ChapterAt(line, i) }
    IN  IF starts = {} THEN [def |-> FALSE, stamp |-> <<>>, title |-> <<>>]
        ELSE LET i == Min(starts)
                 a == SkipSpaces(line, i + 12)
                 b == SkipSpaces(line, a + 1)
                 m == Min(ColonsFrom(line, b))
             IN  [def |-> TRUE,
                  stamp |-> SubSeq(line, i, i + 11),
                  title |-> SubSeq(line, m + 1, Len(line))]

\* parseInt(timeParts[k]) for the pieces of chapterMatch[1].split(/[:.]/)
TimePart(timeParts, k) ==
    IF k <= Len(timeParts) THEN parseInt(timeParts[k]) ELSE NaN

\* a variant of ChapterTimestamp that counts the minutes as seconds
ChapterTimestamp_MinutesAsSeconds(stamp) ==
    LET timeParts == Split(stamp, {":", "."})
    IN  Plus(Plus(Plus(Times(TimePart(timeParts, 1), ToBig(3600000)),
                       Times(TimePart(timeParts, 2), ToBig(1000))),
                  Times(TimePart(timeParts, 3), ToBig(1000))),
             TimePart(timeParts, 4))

\* the timestamp of a chapter in milliseconds
ChapterTimestamp(stamp) ==
    LET timeParts == Split(stamp, {":", "."})
    IN  Plus(Plus(Plus(Times(TimePart(timeParts, 1), ToBig(3600000)),
                       Times(TimePart(timeParts, 2), ToBig(60000))),
                  Times(TimePart(timeParts, 3), ToBig(1000))),
             TimePart(timeParts, 4))

\* line.match(/^\s*([^:]+?)\s+:\s+(.*)$/): the trimmed groups 1 and 2, if any.
\* The colon of the pattern is the first colon of the line; before it come at
\* least one character and one white space, after it at least one white space.
KeyValueMatch(line) ==
    LET colons == ColonsFrom(line, 1)
        j      == Min(colons)
    IN  IF /\ colons # {}
           /\ j >= 3
           /\ IsSpace(line[j - 1])
           /\ j + 1 <= Len(line)
           /\ IsSpace(line[j + 1])
        THEN [def |-> TRUE,
              key |-> Trim(SubSeq(line, 1, j - 1)),
              value |-> Trim(SubSeq(line, j + 1, Len(line)))]
        ELSE [def |-> FALSE, key |-> <<>>, value |-> <<>>]

\* the longest run of letters of s that starts at index i
RECURSIVE LetterRun(_, _)
LetterRun(s, i) ==
    IF i <= Len(s) /\ IsLetter(s[i]) THEN <<s[i]>> \o LetterRun(s, i + 1) ELSE <<>>

\* the index just after a match of \d+\.?\d*\s+[A-Za-z]+ that starts at i, 0 if none
SizeMatchEnd(s, i) ==
    LET d1 == Len(DigitRun(s, i))
        p  == i + d1
        q  == IF p <= Len(s) /\ s[p] = "." THEN p + 1 + Len(DigitRun(s, p + 1)) ELSE p
        w  == SkipSpaces(s, q)
        e  == w + Len(LetterRun(s, w))
    IN  IF d1 >= 1 /\ w > q /\ e > w THEN e ELSE 0

\* value.match(/(\d+\.?\d*\s+[A-Za-z]+)/): group 1, if any
SizeMatch(value) ==
    LET starts == { i \in 1..Len(value) : SizeMatchEnd(value, i) > 0 }
    IN  IF starts = {} THEN Undefined
        ELSE Defined(SubSeq(value, Min(starts), SizeMatchEnd(value, Min(starts)) - 1))

-----------------------------------------------------------------------------
(* parseMediaInfo: the field mappers.  A case of a switch is a triple      *)
(* <<key, field, conversion>>.                                             *)

GeneralCases ==
    { <<<<"U","n","i","q","u","e"," ","I","D">>, "uniqueId", "string">>,
      <<<<"C","o","m","p","l","e","t","e"," ","n","a","m","e">>, "completeName", "string">>,
      <<<<"F","o","r","m","a","t">>, "format", "string">>,
      <<<<"F","o","r","m","a","t"," ","v","e","r","s","i","o","n">>, "formatVersion", "string">>,
      <<<<"F","i","l","e"," ","s","i","z","e">>, "fileSize", "parseSize">>,
      <<<<"D","u","r","a","t","i","o","n">>, "duration", "parseDuration">>,
      <<<<"O","v","e","r","a","l","l"," ","b","i","t"," ","r","a","t","e"," ","m","o","d","e">>, "overallBitRateMode", "string">>,
      <<<<"O","v","e","r","a","l","l"," ","b","i","t"," ","r","a","t","e">>, "overallBitRate", "parseBitRate">>,
      <<<<"F","r","a","m","e"," ","r","a","t","e">>, "frameRate", "parseFloat">>,
      <<<<"E","n","c","o","d","e","d"," ","d","a","t","e">>, "encodedDate", "parseDate">>,
      <<<<"W","r","i","t","i","n","g"," ","a","p","p","l","i","c","a","t","i","o","n">>, "writingApplication", "string">>,
      <<<<"W","r","i","t","i","n","g"," ","l","i","b","r","a","r","y">>, "writingLibrary", "string">>,
      <<<<"A","t","t","a","c","h","m","e","n","t","s">>, "attachments", "string">> }

VideoCases ==
    { <<<<"I","D">>, "id", "parseInt">>,
      <<<<"F","o","r","m","a","t">>, "format", "string">>,
      <<<<"F","o","r","m","a","t","/","I","n","f","o">>, "formatInfo", "string">>,
      <<<<"F","o","r","m","a","t"," ","p","r","o","f","i","l","e">>, "formatProfile", "string">>,
      <<<<"F","o","r","m","a","t"," ","s","e","t","t","i","n","g","s">>, "formatSettings", "string">>,
      <<<<"F","o","r","m","a","t"," ","s","e","t","t","i","n","g","s",","," ","C","A","B","A","C">>, "formatSettingsCabac", "string">>,
      <<<<"F","o","r","m","a","t"," ","s","e","t","t","i","n","g","s",","," ","R","e","f","e","r","e","n","c","e"," ","f","r","a","m","e","s">>, "formatSettingsReferenceFrames", "string">>,
      <<<<"C","o","d","e","c"," ","I","D">>, "codecId", "string">>,
      <<<<"D","u","r","a","t","i","o","n">>, "duration", "parseDuration">>,
      <<<<"B","i","t"," ","r","a","t","e"," ","m","o","d","e">>, "bitRateMode", "string">>,
      <<<<"B","i","t"," ","r","a","t","e">>, "bitRate", "parseBitRate">>,
      <<<<"M","a","x","i","m","u","m"," ","b","i","t"," ","r","a","t","e">>, "maximumBitRate", "parseBitRate">>,
      <<<<"W","i","d","t","h">>, "width", "parseIntNoSpaces">>,
      <<<<"H","e","i","g","h","t">>, "height", "parseIntNoSpaces">>,
      <<<<"D","i","s","p","l","a","y"," ","a","s","p","e","c","t"," ","r","a","t","i","o">>, "displayAspectRatio", "string">>,
      <<<<"F","r","a","m","e"," ","r","a","t","e"," ","m","o","d","e">>, "frameRateMode", "string">>,
      <<<<"F","r","a","m","e"," ","r","a","t","e">>, "frameRate", "parseFloat">>,
      <<<<"C","o","l","o","r"," ","s","p","a","c","e">>, "colorSpace", "string">>,
      <<<<"C","h","r","o","m","a"," ","s","u","b","s","a","m","p","l","i","n","g">>, "chromaSubsampling", "string">>,
      <<<<"B","i","t"," ","d","e","p","t","h">>, "bitDepth", "parseInt">>,
      <<<<"S","c","a","n"," ","t","y","p","e">>, "scanType", "string">>,
      <<<<"B","i","t","s","/","(","P","i","x","e","l","*","F","r","a","m","e",")">>, "bitsPerPixelFrame", "parseFloat">>,
      <<<<"S","t","r","e","a","m"," ","s","i","z","e">>, "streamSize", "streamSize">>,
      <<<<"D","e","f","a","u","l","t">>, "default", "yes">>,
      <<<<"F","o","r","c","e","d">>, "forced", "yes">> }

AudioCases ==
    { <<<<"I","D">>, "id", "parseInt">>,
      <<<<"F","o","r","m","a","t">>, "format", "string">>,
      <<<<"F","o","r","m","a","t"," ","s","e","t","t","i","n","g","s">>, "formatSettings", "string">>,
      <<<<"C","o","d","e","c"," ","I","D">>, "codecId", "string">>,
      <<<<"D","u","r","a","t","i","o","n">>, "duration", "parseDuration">>,
      <<<<"B","i","t"," ","r","a","t","e"," ","m","o","d","e">>, "bitRateMode", "string">>,
      <<<<"B","i","t"," ","r","a","t","e">>, "bitRate", "parseBitRate">>,
      <<<<"C","h","a","n","n","e","l","(","s",")">>, "channels", "parseInt">>,
      <<<<"S","a","m","p","l","i","n","g"," ","r","a","t","e">>, "samplingRate", "parseFrequency">>,
      <<<<"F","r","a","m","e"," ","r","a","t","e">>, "frameRate", "parseFloat">>,
      <<<<"B","i","t"," ","d","e","p","t","h">>, "bitDepth", "parseInt">>,
      <<<<"S","t","r","e","a","m"," ","s","i","z","e">>, "streamSize", "streamSize">>,
      <<<<"T","i","t","l","e">>, "title", "string">>,
      <<<<"L","a","n","g","u","a","g","e">>, "language", "string">>,
      <<<<"D","e","f","a","u","l","t">>, "default", "yes">>,
      <<<<"F","o","r","c","e","d">>, "forced", "yes">> }

TextCases ==
    { <<<<"I","D">>, "id", "parseInt">>,
      <<<<"F","o","r","m","a","t">>, "format", "string">>,
      <<<<"C","o","d","e","c"," ","I","D">>, "codecId", "string">>,
      <<<<"C","o","d","e","c"," ","I","D","/","I","n","f","o">>, "codecIdInfo", "string">>,
      <<<<"D","u","r","a","t","i","o","n">>, "duration", "parseDuration">>,
      <<<<"B","i","t"," ","r","a","t","e">>, "bitRate", "parseBitRate">>,
      <<<<"F","r","a","m","e"," ","r","a","t","e">>, "frameRate", "parseFloat">>,
      <<<<"C","o","u","n","t"," ","o","f"," ","e","l","e","m","e","n","t","s">>, "countOfElements", "parseInt">>,
      <<<<"C","o","m","p","r","e","s","s","i","o","n"," ","m","o","d","e">>, "compressionMode", "string">>,
      <<<<"S","t","r","e","a","m"," ","s","i","z","e">>, "streamSize", "streamSize">>,
      <<<<"T","i","t","l","e">>, "title", "string">>,
      <<<<"L","a","n","g","u","a","g","e">>, "language", "string">>,
      <<<<"D","e","f","a","u","l","t">>, "default", "yes">>,
      <<<<"F","o","r","c","e","d">>, "forced", "yes">> }

\* the cases of the switch of a section; no switch for '' and 'menu'
CasesOf(section) ==
    IF section = <<"g","e","n","e","r","a","l">> THEN GeneralCases
    ELSE IF section = <<"v","i","d","e","o">> THEN VideoCases
    ELSE IF section = <<"a","u","d","i","o">> THEN AudioCases
    ELSE IF section = <<"t","e","x","t">> THEN TextCases
    ELSE {}

\* a variant of IsYes that compares the letters as they are
IsYes_Exact(value) == value = <<"Y","e","s">>

\* value.toLowerCase() === 'yes'
IsYes(value) == ToLowerCase(value) = <<"y","e","s">>

\* the right-hand side of the assignment of a case; Undefined when the case
\* assigns nothing (a 'Stream size' whose value has no size in it)
Converted(conversion, value) ==
    CASE conversion = "string"           -> Defined(value)
      [] conversion = "parseSize"        -> Defined(parseSize(value))
      [] conversion = "parseDuration"    -> Defined(parseDuration(value))
      [] conversion = "parseBitRate"     -> Defined(parseBitRate(value))
      [] conversion = "parseFrequency"   -> Defined(parseFrequency(value))
      [] conversion = "parseFloat"       -> Defined(parseFloat(value))
      [] conversion = "parseInt"         -> Defined(parseInt(value))
      [] conversion = "parseIntNoSpaces" -> Defined(parseInt(RemoveSpaces(value)))
      [] conversion = "parseDate"        -> Defined(parseDate(value))
      [] conversion = "yes"              -> Defined(IsYes(value))
      [] conversion = "streamSize"       ->
            LET sizeMatch == SizeMatch(value)
            IN  IF sizeMatch.def THEN Defined(parseSize(sizeMatch.s)) ELSE Undefined

\* target.field = v on a record of optional fields
Put(target, field, v) ==
    [f \in (DOMAIN target) \cup {field} |-> IF f = field THEN v ELSE target[f]]

\* switch (key) { ... } on the target record: the record after the switch
Switch(cases, target, key, value) ==
    IF \E k \in cases : k[1] = key
    THEN LET k == CHOOSE k \in cases : k[1] = key
             v == Converted(k[3], value)
         IN  IF v.def THEN Put(target, k[2], v.s) ELSE target
    ELSE target

\* whether the switch assigns to its target for this key and value
Assigns(cases, key, value) ==
    \E k \in cases : k[1] = key /\ Converted(k[3], value).def

-----------------------------------------------------------------------------
(* parseMediaInfo: the parse driver *)

\* a variant of CellOf in which all calls share the bindings of one cell
CellOf_Shared(c) == 1

\* the memory cell that holds the local bindings (result, currentSection,
\* trackIndex) of call c: every call allocates its own
CellOf(c) == c

EmptyResult ==
    [general |-> <<>>, video |-> <<>>, audio |-> <<>>, text |-> <<>>, menu |-> <<>>]

TrackSections == { <<"v","i","d","e","o">>, <<"a","u","d","i","o">>, <<"t","e","x","t">> }

\* result[section] for a track section
Tracks(res, section) ==
    IF section = <<"v","i","d","e","o">> THEN res.video
    ELSE IF section = <<"a","u","d","i","o">> THEN res.audio
    ELSE res.text

WithTracks(res, section, tracks) ==
    IF section = <<"v","i","d","e","o">> THEN [res EXCEPT !.video = tracks]
    ELSE IF section = <<"a","u","d","i","o">> THEN [res EXCEPT !.audio = tracks]
    ELSE [res EXCEPT !.text = tracks]

\* a variant of Pushed that puts the new track in front of the others
Pushed_Front(res, section) ==
    IF section \in TrackSections
    THEN WithTracks(res, section, <<<<>>>> \o Tracks(res, section))
    ELSE res

\* result.video.push({}), result.audio.push({}) or result.text.push({})
Pushed(res, section) ==
    IF section \in TrackSections
    THEN WithTracks(res, section, Append(Tracks(res, section), <<>>))
    ELSE res

\* a variant of HeaderTrackIndex that stays on the first track of the kind
HeaderTrackIndex_First(res, section) ==
    IF section = <<"g","e","n","e","r","a","l">> \/ section = <<"m","e","n","u">> THEN -1
    ELSE 0

\* a variant of HeaderTrackIndex that is one too large
HeaderTrackIndex_Length(res, section) ==
    IF section = <<"g","e","n","e","r","a","l">> \/ section = <<"m","e","n","u">> THEN -1
    ELSE Len(Tracks(res, section))

\* a variant of HeaderTrackIndex that gives General and Menu the index 0
HeaderTrackIndex_NoReset(res, section) ==
    IF section = <<"g","e","n","e","r","a","l">> \/ section = <<"m","e","n","u">> THEN 0
    ELSE Len(Tracks(res, section)) - 1

\* the track index a header sets, from the result after the push (0-based)
HeaderTrackIndex(res, section) ==
    IF section = <<"g","e","n","e","r","a","l">> \/ section = <<"m","e","n","u">> THEN -1
    ELSE Len(Tracks(res, section)) - 1

\* the chapter a Menu line appends, if it matches
WithChapter(res, line) ==
    LET chapterMatch == ChapterMatch(line)
    IN  IF chapterMatch.def
        THEN [res EXCEPT !.menu = Append(@, [timestamp |-> ChapterTimestamp(chapterMatch.stamp),
                                             title |-> Trim(chapterMatch.title)])]
        ELSE res

\* the if-else chain on currentSection for a key and a value: the result after
\* it, and whether it threw (an assignment to a target that is undefined)
Dispatch(res, section, index, key, value) ==
    IF section = <<"g","e","n","e","r","a","l">>
    THEN [threw |-> FALSE,
          result |-> [res EXCEPT !.general = Switch(GeneralCases, @, key, value)]]
    ELSE IF section \in TrackSections /\ index >= 0
    THEN LET tracks == Tracks(res, section)
         IN  IF index + 1 <= Len(tracks)
             THEN [threw |-> FALSE,
                   result |-> WithTracks(res, section,
                                  [tracks EXCEPT ![index + 1] =
                                      Switch(CasesOf(section), @, key, value)])]
             ELSE [threw |-> Assigns(CasesOf(section), key, value), result |-> res]
    ELSE [threw |-> FALSE, result |-> res]

InLoop(c) == pc[c] = "loop" /\ pos[c] <= Len(text[c])

Line(c) == text[c][pos[c]]

\* a variant of SkipBlank that leaves the current section as it is
SkipBlank_KeepSection(c) ==
    /\ InLoop(c)
    /\ IsBlank(Line(c))
    /\ pos' = [pos EXCEPT ![c] = @ + 1]
    /\ UNCHANGED <<text, pc, currentSection, trackIndex, result, arg, ret>>

\* if (!line.trim()) { currentSection = ''; continue; }
SkipBlank(c) ==
    /\ InLoop(c)
    /\ IsBlank(Line(c))
    /\ currentSection' = [currentSection EXCEPT ![CellOf(c)] = <<>>]
    /\ pos' = [pos EXCEPT ![c] = @ + 1]
    /\ UNCHANGED <<text, pc, trackIndex, result, arg, ret>>

\* if (sectionMatch) { ...; continue; }
SectionHeader(c) ==
    /\ InLoop(c)
    /\ ~IsBlank(Line(c))
    /\ SectionMatch(Line(c)).def
    /\ LET m       == CellOf(c)
           section == ToLowerCase(SectionMatch(Line(c)).s)
           res     == Pushed(result[m], section)
       IN  /\ currentSection' = [currentSection EXCEPT ![m] = section]
           /\ result' = [result EXCEPT ![m] = res]
           /\ trackIndex' = [trackIndex EXCEPT ![m] = HeaderTrackIndex(res, section)]
    /\ pos' = [pos EXCEPT ![c] = @ + 1]
    /\ UNCHANGED <<text, pc, arg, ret>>

\* a variant of MenuLine that tells a chapter line by its shape, whatever the
\* current section
MenuLine_AnySection(c) ==
    /\ InLoop(c)
    /\ ~IsBlank(Line(c))
    /\ ~SectionMatch(Line(c)).def
    /\ ChapterMatch(Line(c)).def
    /\ result' = [result EXCEPT ![CellOf(c)] = WithChapter(@, Line(c))]
    /\ pos' = [pos EXCEPT ![c] = @ + 1]
    /\ UNCHANGED <<text, pc, currentSection, trackIndex, arg, ret>>

\* if (currentSection === 'menu') { ...; continue; }
MenuLine(c) ==
    /\ InLoop(c)
    /\ ~IsBlank(Line(c))
    /\ ~SectionMatch(Line(c)).def
    /\ currentSection[CellOf(c)] = <<"m","e","n","u">>
    /\ result' = [result EXCEPT ![CellOf(c)] = WithChapter(@, Line(c))]
    /\ pos' = [pos EXCEPT ![c] = @ + 1]
    /\ UNCHANGED <<text, pc, currentSection, trackIndex, arg, ret>>

\* const keyValueMatch = ...; if (keyValueMatch) { ... }
KeyValueLine(c) ==
    /\ InLoop(c)
    /\ ~IsBlank(Line(c))
    /\ ~SectionMatch(Line(c)).def
    /\ currentSection[CellOf(c)] # <<"m","e","n","u">>
    /\ LET m  == CellOf(c)
           kv == KeyValueMatch(Line(c))
           d  == Dispatch(result[m], currentSection[m], trackIndex[m], kv.key, kv.value)
       IN  IF kv.def /\ d.threw
           THEN /\ pc' = [pc EXCEPT ![c] = "error"]
                /\ UNCHANGED <<pos, result>>
           ELSE /\ result' = [result EXCEPT ![m] = IF kv.def THEN d.result ELSE @]
                /\ pos' = [pos EXCEPT ![c] = @ + 1]
                /\ pc' = pc
    /\ UNCHANGED <<text, currentSection, trackIndex, arg, ret>>

\* return result;
Return(c) ==
    /\ pc[c] = "loop"
    /\ pos[c] > Len(text[c])
    /\ pc' = [pc EXCEPT ![c] = "done"]
    /\ UNCHANGED <<text, pos, currentSection, trackIndex, result, arg, ret>>

Step(c) ==
    \/ SkipBlank(c)
    \/ SectionHeader(c)
    \/ MenuLine(c)
    \/ KeyValueLine(c)
    \/ Return(c)

NextParse == \E c \in Calls : Step(c)

\* the helper calls
CallParseSize ==
    /\ ret = <<>>
    /\ ret' = <<parseSize(arg)>>
    /\ UNCHANGED <<text, pos, pc, currentSection, trackIndex, result, arg>>

CallParseDuration ==
    /\ ret = <<>>
    /\ ret' = <<parseDuration(arg)>>
    /\ UNCHANGED <<text, pos, pc, currentSection, trackIndex, result, arg>>

CallParseBitRate ==
    /\ ret = <<>>
    /\ ret' = <<parseBitRate(arg)>>
    /\ UNCHANGED <<text, pos, pc, currentSection, trackIndex, result, arg>>

CallParseFrequency ==
    /\ ret = <<>>
    /\ ret' = <<parseFrequency(arg)>>
    /\ UNCHANGED <<text, pos, pc, currentSection, trackIndex, result, arg>>

-----------------------------------------------------------------------------
(* Specifications *)

MaxLines == 4

\* the texts of 1..n lines over a set of lines
TextsOver(lines, n) == UNION { [1..k -> lines] : k \in 1..n }

\* no call of parseMediaInfo is running
ParserIdle ==
    /\ text = NoText
    /\ pos = [c \in Calls |-> 1]
    /\ pc = [c \in Calls |-> "idle"]
    /\ currentSection = [m \in Calls |-> <<>>]
    /\ trackIndex = [m \in Calls |-> -1]
    /\ result = [m \in Calls |-> EmptyResult]

\* a helper is called with an argument of a set of strings
InitHelper(inputs) == ParserIdle /\ arg \in inputs /\ ret = <<>>

\* call 1 of parseMediaInfo starts on a text of a set of texts
InitOne(texts) ==
    /\ text \in { [c \in Calls |-> IF c = 1 THEN t ELSE <<>>] : t \in texts }
    /\ pos = [c \in Calls |-> 1]
    /\ pc = [c \in Calls |-> IF c = 1 THEN "loop" ELSE "idle"]
    /\ currentSection = [m \in Calls |-> <<>>]
    /\ trackIndex = [m \in Calls |-> -1]
    /\ result = [m \in Calls |-> EmptyResult]
    /\ arg = <<>>
    /\ ret = <<>>

\* calls 1 and 2 of parseMediaInfo start on two texts of a set of pairs
InitTwo(pairs) ==
    /\ text \in { [c \in Calls |-> p[c]] : p \in pairs }
    /\ pos = [c \in Calls |-> 1]
    /\ pc = [c \in Calls |-> "loop"]
    /\ currentSection = [m \in Calls |-> <<>>]
    /\ trackIndex = [m \in Calls |-> -1]
    /\ result = [m \in Calls |-> EmptyResult]
    /\ arg = <<>>
    /\ ret = <<>>

SpecSize == InitHelper(SizeInputs) /\ [][CallParseSize]_vars

SpecDuration == InitHelper(DurationInputs) /\ [][CallParseDuration]_vars

SpecBitRate == InitHelper(BitRateInputs) /\ [][CallParseBitRate]_vars

SpecFrequency == InitHelper(FrequencyInputs) /\ [][CallParseFrequency]_vars

\* lines of a report with tracks of every kind
TrackLines ==
    { <<>>, <<"V","i","d","e","o">>, <<"V","i","d","e","o"," ","#","7">>, <<"A","u","d","i","o"," ","#","2">>, <<"T","e","x","t">>, <<"M","e","n","u">>,
      <<"F","o","r","m","a","t"," "," "," "," "," "," "," "," "," "," "," "," "," "," "," "," "," "," "," "," "," "," "," "," "," "," "," "," "," "," "," "," "," "," "," ",":"," ","A","V","C">>, <<"I","D"," ",":"," ","2">> }

Init == InitOne(TextsOver(TrackLines, MaxLines))

Spec == Init /\ [][NextParse]_vars

-----------------------------------------------------------------------------
(* Claims about the value helpers *)

\* the unit table of the size claim, keys in lower case
C6_Table ==
    { <<<<"b">>, 0>>, <<<<"k","i","b">>, 1>>, <<<<"k","b">>, 1>>, <<<<"m","i","b">>, 2>>, <<<<"m","b">>, 2>>,
      <<<<"g","i","b">>, 3>>, <<<<"g","b">>, 3>>, <<<<"t","i","b">>, 4>>, <<<<"t","b">>, 4>> }

\* what the size claim says parseSize returns on '<n> <unit>' or '<n>'
C6_Expected(s) ==
    LET parts == Split(s, {" "})
        n     == parseFloat(RemoveCommas(parts[1]))
        unit  == IF Len(parts) >= 2 THEN ToLowerCase(parts[2]) ELSE <<>>
        hit   == { e \in C6_Table : Len(parts) >= 2 /\ e[1] = unit }
        base  == IF \E i \in 1..Len(unit) : unit[i] = "i" THEN 1024 ELSE 1000
    IN  IF hit # {}
        THEN MathRound(Times(n, BigPow(ToBig(base), (CHOOSE e \in hit : TRUE)[2])))
        ELSE MathRound(n)

\* C6: parseSize on '<n> <unit>' returns round(n * 1024^power) for a binary
\* unit of the table and round(n * 1000^power) for a decimal one, commas of n
\* removed, and round(n) for an unknown or a missing unit.
C6_ParseSizeAsClaimed == ret # <<>> => ret[1] = C6_Expected(arg)

\* the value a string of digits writes, as an integer
RECURSIVE C7_IntOf(_)
C7_IntOf(ds) ==
    IF Len(ds) = 0 THEN 0 ELSE 10 * C7_IntOf(SubSeq(ds, 1, Len(ds) - 1)) + DigitVal(ds[Len(ds)])

\* the milliseconds of one unit token by the duration claim; the four
\* prefixes exclude each other, so the sum has at most one term
C7_Factor(u) ==
    (IF StartsWith(u, <<"h">>) THEN 3600000 ELSE 0)
        + (IF StartsWith(u, <<"m","i","n">>) THEN 60000 ELSE 0)
        + (IF StartsWith(u, <<"s">>) THEN 1000 ELSE 0)
        + (IF StartsWith(u, <<"m","s">>) THEN 1 ELSE 0)

\* the sum over the pairs (parts[i], parts[i + 1]), i odd
RECURSIVE C7_Sum(_, _)
C7_Sum(parts, i) ==
    IF i + 1 > Len(parts) THEN 0
    ELSE C7_IntOf(parts[i]) * C7_Factor(parts[i + 1]) + C7_Sum(parts, i + 2)

\* C7: parseDuration on a space-separated sequence of (integer, unit) pairs
\* returns the sum of integer * 3600000 for 'h...', integer * 60000 for
\* 'min...', integer * 1000 for 's...', integer for 'ms...', 0 for another unit.
C7_DurationIsSum ==
    ret # <<>> => ret[1] = Integer(C7_Sum(Split(arg, {" "}), 1))

\* 45 min 30 ms is 2700030 ms: minutes are not seconds, ms are milliseconds
C7_Witness == arg = <<"4","5"," ","m","i","n"," ","3","0"," ","m","s">> /\ ret = <<Integer(2700030)>>

\* the string after the leading digits and periods
C8_UnitOf(clean) ==
    LET k == Min({ i \in 1..(Len(clean) + 1) :
                     i = Len(clean) + 1 \/ ~(IsDigit(clean[i]) \/ clean[i] = ".") })
    IN  SubSeq(clean, k, Len(clean))

\* C8: with the white space removed and the letters lowered, and v the
\* leading number, parseBitRate returns round(v * 1000000) for the unit
\* 'mb/s', round(v * 1000) for 'kb/s', round(v) for 'b/s' or no unit; digit
\* groups separated by spaces are one number.
C8_BitRateScaled ==
    ret # <<>> =>
        LET clean == ToLowerCase(RemoveSpaces(arg))
            v     == parseFloat(clean)
            unit  == C8_UnitOf(clean)
        IN  /\ unit \in { <<"m","b","/","s">>, <<"k","b","/","s">>, <<"b","/","s">>, <<>> }
            /\ unit = <<"m","b","/","s">> => ret[1] = MathRound(Times(v, ToBig(1000000)))
            /\ unit = <<"k","b","/","s">> => ret[1] = MathRound(Times(v, ToBig(1000)))
            /\ unit \in { <<"b","/","s">>, <<>> } => ret[1] = MathRound(v)

\* '2 304 kb/s' is 2304000 bits per second
C8_Witness == arg = <<"2"," ","3","0","4"," ","k","b","/","s">> /\ ret = <<Integer(2304000)>>

\* C9: with v the number read after the white space is removed,
\* parseFrequency returns round(v * 1000) when the input contains 'khz' in
\* any case, round(v * 1000000) when it contains 'mhz', round(v) otherwise.
C9_FrequencyScaled ==
    ret # <<>> =>
        LET v     == parseFloat(RemoveSpaces(arg))
            lower == ToLowerCase(arg)
        IN  ret[1] = IF Includes(lower, <<"k","h","z">>) THEN MathRound(Times(v, ToBig(1000)))
                     ELSE IF Includes(lower, <<"m","h","z">>) THEN MathRound(Times(v, ToBig(1000000)))
                     ELSE MathRound(v)

\* '48.0 kHz' is 48000 Hz
C9_Witness == arg = <<"4","8",".","0"," ","k","H","z">> /\ ret = <<Integer(48000)>>

-----------------------------------------------------------------------------
(* Claims about the parse driver *)

\* a header line of a section by the input format: the bare name, or the
\* name followed by ' #' and digits
IsHeaderLineOf(line, name) ==
    \/ line = name
    \/ /\ Len(line) > Len(name) + 2
       /\ SubSeq(line, 1, Len(name) + 2) = name \o <<" ","#">>
       /\ \A i \in (Len(name) + 3)..Len(line) : IsDigit(line[i])

IsHeaderLine(line) == \E n \in SectionNames : IsHeaderLineOf(line, n)

HeaderLines(t, name) == { i \in 1..Len(t) : IsHeaderLineOf(t[i], name) }

\* the i-th smallest element of a set of numbers
NthOf(S, i) == CHOOSE x \in S : Cardinality({ y \in S : y < x }) = i - 1

\* the index just after the block the header at index h opens: the next blank
\* line or header, or the end of the text
BlockEnd(t, h) ==
    Min({ k \in (h + 1)..(Len(t) + 1) :
            k = Len(t) + 1 \/ IsBlank(t[k]) \/ IsHeaderLine(t[k]) })

\* the record the key-value lines t[i], ..., t[end - 1] give
RECURSIVE BlockFields(_, _, _, _, _)
BlockFields(cases, t, i, end, rec) ==
    IF i >= end THEN rec
    ELSE LET kv == KeyValueMatch(t[i])
         IN  BlockFields(cases, t, i + 1, end,
                       IF kv.def THEN Switch(cases, rec, kv.key, kv.value) ELSE rec)

C1_Kinds == { <<<<"V","i","d","e","o">>, <<"v","i","d","e","o">>>>, <<<<"A","u","d","i","o">>, <<"a","u","d","i","o">>>>, <<<<"T","e","x","t">>, <<"t","e","x","t">>>> }

\* C1: a text with k header lines of a track kind gives a sequence of
\* exactly k tracks of that kind, and the i-th track holds the fields of the
\* block the i-th header opens, whatever the digits of the header's suffix.
C1_TracksInHeaderOrder ==
    pc[1] = "done" =>
        \A kind \in C1_Kinds :
            LET hs     == HeaderLines(text[1], kind[1])
                tracks == Tracks(result[CellOf(1)], kind[2])
            IN  /\ Len(tracks) = Cardinality(hs)
                /\ \A i \in 1..Len(tracks) :
                       tracks[i] = BlockFields(CasesOf(kind[2]), text[1], NthOf(hs, i) + 1,
                                             BlockEnd(text[1], NthOf(hs, i)), <<>>)

\* two Video blocks, the first with the larger suffix: two tracks, each with
\* the field of its own block
C1_Witness ==
    /\ pc[1] = "done"
    /\ text[1] = <<<<"V","i","d","e","o"," ","#","7">>, <<"F","o","r","m","a","t"," "," "," "," "," "," "," "," "," "," "," "," "," "," "," "," "," "," "," "," "," "," "," "," "," "," "," "," "," "," "," "," "," "," "," ",":"," ","A","V","C">>,
                   <<"V","i","d","e","o">>, <<"I","D"," ",":"," ","2">>>>
    /\ Len(result[CellOf(1)].video) = 2
    /\ DOMAIN result[CellOf(1)].video[1] = {"format"}
    /\ DOMAIN result[CellOf(1)].video[2] = {"id"}

\* lines of a report with the Default and Forced flags of tracks
FlagLines ==
    { <<>>, <<"V","i","d","e","o">>, <<"A","u","d","i","o"," ","#","1">>, <<"T","e","x","t">>, <<"M","e","n","u">>,
      <<"D","e","f","a","u","l","t"," "," "," "," "," "," "," "," "," "," "," "," "," "," "," "," "," "," "," "," "," "," "," "," "," "," "," "," "," "," "," "," "," "," ",":"," ","Y","e","s">>, <<"D","e","f","a","u","l","t"," ",":"," ","y","e","s">>,
      <<"F","o","r","c","e","d"," "," "," "," "," "," "," "," "," "," "," "," "," "," "," "," "," "," "," "," "," "," "," "," "," "," "," "," "," "," "," "," "," "," "," ",":"," ","N","o">>, <<"F","o","r","c","e","d"," ",":"," ","Y","E","S">> }

SpecFlags == InitOne(TextsOver(FlagLines, MaxLines)) /\ [][NextParse]_vars

\* the line the loop of call 1 handled last was a key-value line with this
\* key, inside a track block (such a line leaves the scan state as it is)
C10_JustHandled(key) ==
    /\ pc[1] = "loop"
    /\ pos[1] > 1
    /\ currentSection[CellOf(1)] \in TrackSections
    /\ ~IsBlank(text[1][pos[1] - 1])
    /\ ~IsHeaderLine(text[1][pos[1] - 1])
    /\ KeyValueMatch(text[1][pos[1] - 1]).def
    /\ KeyValueMatch(text[1][pos[1] - 1]).key = key

\* the track of the current block
C10_Track ==
    Tracks(result[CellOf(1)], currentSection[CellOf(1)])[trackIndex[CellOf(1)] + 1]

C10_Value == KeyValueMatch(text[1][pos[1] - 1]).value

\* C10 as stated: in a track block a 'Default' or 'Forced' line sets the flag
\* to true when its value is 'Yes' and to false for every other value.
C10_TrueOnlyForYes ==
    /\ C10_JustHandled(<<"D","e","f","a","u","l","t">>) => C10_Track["default"] = (C10_Value = <<"Y","e","s">>)
    /\ C10_JustHandled(<<"F","o","r","c","e","d">>) => C10_Track["forced"] = (C10_Value = <<"Y","e","s">>)

\* C10 amended: in a track block a 'Default' or 'Forced' line sets the flag
\* to true when its value is 'yes' in any letter case ('Yes', 'yes', 'YES')
\* and to false for every other value.
C10_TrueForYesInAnyCase ==
    /\ C10_JustHandled(<<"D","e","f","a","u","l","t">>) =>
           /\ "default" \in DOMAIN C10_Track
           /\ C10_Track["default"] = (ToLowerCase(C10_Value) = <<"y","e","s">>)
    /\ C10_JustHandled(<<"F","o","r","c","e","d">>) =>
           /\ "forced" \in DOMAIN C10_Track
           /\ C10_Track["forced"] = (ToLowerCase(C10_Value) = <<"y","e","s">>)

\* 'Forced : YES' in an Audio block has set forced to true, 'Forced : No' in
\* a Text block would set it to false
C10_Witness ==
    /\ C10_JustHandled(<<"F","o","r","c","e","d">>)
    /\ currentSection[CellOf(1)] = <<"a","u","d","i","o">>
    /\ C10_Value = <<"Y","E","S">>
    /\ C10_Track["forced"] = TRUE

\* lines with malformed content: a blank line of spaces, a header with an
\* empty suffix, a chapter line, values no helper can read, an unknown key
LenientLines ==
    { <<" "," ">>, <<"G","e","n","e","r","a","l">>, <<"A","u","d","i","o"," ","#","1">>, <<"M","e","n","u">>, <<"V","i","d","e","o"," ","#">>,
      <<"0","0",":","2","3",":","5","0",".","0","0","0"," ",":"," ","e","n",":","C","h","a","p","t","e","r"," ","5">>, <<"D","u","r","a","t","i","o","n"," ",":"," ","a","b","c">>,
      <<"S","t","r","e","a","m"," ","s","i","z","e"," ",":"," ","N","/","A">>, <<"F","o","o"," ",":"," ","b","a","r">> }

SpecLenient == InitOne(TextsOver(LenientLines, MaxLines)) /\ [][NextParse]_vars

IsSequence(x) == DOMAIN x = 1..Len(x)

C3_Safe ==
    /\ pc[1] \in {"loop", "done"}
    /\ pos[1] \in 1..(Len(text[1]) + 1)
    /\ pc[1] = "done" =>
           /\ pos[1] = Len(text[1]) + 1
           /\ DOMAIN result[CellOf(1)] = {"general", "video", "audio", "text", "menu"}
           /\ \A f \in DOMAIN result[CellOf(1)].general : f \in STRING
           /\ IsSequence(result[CellOf(1)].video)
           /\ IsSequence(result[CellOf(1)].audio)
           /\ IsSequence(result[CellOf(1)].text)
           /\ IsSequence(result[CellOf(1)].menu)

\* a step of the call handles the line at pos and moves to the next, or returns
C3_LineByLine ==
    \/ pos'[1] = pos[1] + 1 /\ pc'[1] = "loop"
    \/ pos'[1] = pos[1] /\ pos[1] = Len(text[1]) + 1 /\ pc'[1] = "done"

\* C3: on every text (blank lines, headers, chapter lines, key-value lines
\* with known or unknown keys and readable or unreadable values, lines of
\* no shape) the call handles each line exactly once, never fails, and
\* returns a report with a general record and four sequences.  Every step
\* moves to the next line or returns after the last one, so the call ends
\* after Len(text) + 1 steps.
C3_NeverFailsAndReturns == []C3_Safe /\ [][C3_LineByLine]_vars

\* a text of malformed lines parsed to the end: the duration that holds no
\* pair reads as 0, the stream size is not set
C3_Witness ==
    /\ pc[1] = "done"
    /\ text[1] = <<<<"A","u","d","i","o"," ","#","1">>, <<"D","u","r","a","t","i","o","n"," ",":"," ","a","b","c">>, <<"S","t","r","e","a","m"," ","s","i","z","e"," ",":"," ","N","/","A">>, <<"V","i","d","e","o"," ","#">>>>
    /\ DOMAIN result[CellOf(1)].audio[1] = {"duration"}
    /\ result[CellOf(1)].audio[1]["duration"] = Integer(0)

\* the fields the interfaces of the records declare
GeneralTrackFields ==
    { "uniqueId", "completeName", "format", "formatVersion", "fileSize", "duration",
      "overallBitRateMode", "overallBitRate", "frameRate", "frameCount", "streamSize",
      "encodedDate", "writingApplication", "writingLibrary", "attachments" }

VideoTrackFields ==
    { "id", "format", "formatInfo", "formatProfile", "formatSettings",
      "formatSettingsCabac", "formatSettingsReferenceFrames", "codecId", "duration",
      "bitRateMode", "bitRate", "maximumBitRate", "width", "height",
      "displayAspectRatio", "frameRateMode", "frameRate", "colorSpace",
      "chromaSubsampling", "bitDepth", "scanType", "bitsPerPixelFrame", "streamSize",
      "default", "forced" }

AudioTrackFields ==
    { "id", "format", "formatSettings", "codecId", "duration", "bitRateMode", "bitRate",
      "channels", "samplingRate", "frameRate", "bitDepth", "streamSize", "language",
      "title", "default", "forced" }

TextTrackFields ==
    { "id", "format", "codecId", "codecIdInfo", "duration", "bitRate", "frameRate",
      "countOfElements", "compressionMode", "streamSize", "language", "title",
      "default", "forced" }

FieldsOf(section) ==
    IF section = <<"g","e","n","e","r","a","l">> THEN GeneralTrackFields
    ELSE IF section = <<"v","i","d","e","o">> THEN VideoTrackFields
    ELSE IF section = <<"a","u","d","i","o">> THEN AudioTrackFields
    ELSE TextTrackFields

\* lines of a report with recognized keys, a stream size that holds no size,
\* and the frame count of the general block
FieldLines ==
    { <<>>, <<"G","e","n","e","r","a","l">>, <<"V","i","d","e","o">>, <<"A","u","d","i","o"," ","#","1">>, <<"M","e","n","u">>,
      <<"F","o","r","m","a","t"," "," "," "," "," "," "," "," "," "," "," "," "," "," "," "," "," "," "," "," "," "," "," "," "," "," "," "," "," "," "," "," "," "," "," ",":"," ","A","V","C">>,
      <<"S","t","r","e","a","m"," ","s","i","z","e"," "," "," "," "," "," "," "," "," "," "," "," "," "," "," "," "," "," "," "," "," "," "," "," "," "," "," "," "," "," ",":"," ","3","9","3"," ","M","i","B"," ","(","5","%",")">>,
      <<"S","t","r","e","a","m"," ","s","i","z","e"," ",":"," ","N","/","A">>, <<"F","r","a","m","e"," ","c","o","u","n","t"," ",":"," ","1","0","0">> }

SpecFields == InitOne(TextsOver(FieldLines, MaxLines)) /\ [][NextParse]_vars

\* the pairs <<key, field>> of a section by the field claim: the cases of the
\* section's switch, and for the general record the keys of its frameCount
\* and streamSize fields
C4_Keys(section) ==
    { <<k[1], k[2]>> : k \in CasesOf(section) }
        \cup (IF section = <<"g","e","n","e","r","a","l">>
              THEN { <<<<"F","r","a","m","e"," ","c","o","u","n","t">>, "frameCount">>, <<<<"S","t","r","e","a","m"," ","s","i","z","e">>, "streamSize">> }
              ELSE {})

\* the block the header at index h of the text opens holds a key-value line
\* whose key is a recognized key of the field
C4_BlockHasKeyOf(t, h, section, field) ==
    \E i \in (h + 1)..(BlockEnd(t, h) - 1) :
        /\ KeyValueMatch(t[i]).def
        /\ <<KeyValueMatch(t[i]).key, field>> \in C4_Keys(section)

\* C4: a field of a record of the output (general, or a video, audio or text
\* track) is populated if and only if the record's own block holds a
\* key-value line with the recognized key of the field, whatever the value of
\* a 'Stream size' line looks like, frameCount and streamSize of the general
\* record included.
C4_PopulatedIffKeyInBlock ==
    pc[1] = "done" =>
        /\ \A f \in GeneralTrackFields :
               f \in DOMAIN result[CellOf(1)].general
                   <=> \E h \in HeaderLines(text[1], <<"G","e","n","e","r","a","l">>) :
                           C4_BlockHasKeyOf(text[1], h, <<"g","e","n","e","r","a","l">>, f)
        /\ \A kind \in C1_Kinds :
               LET hs     == HeaderLines(text[1], kind[1])
                   tracks == Tracks(result[CellOf(1)], kind[2])
               IN  \A i \in 1..Len(tracks) : \A f \in FieldsOf(kind[2]) :
                       f \in DOMAIN tracks[i]
                           <=> C4_BlockHasKeyOf(text[1], NthOf(hs, i), kind[2], f)

\* lines for two calls
TwoCallLines == { <<>>, <<"V","i","d","e","o">>, <<"M","e","n","u">>, <<"F","o","r","m","a","t"," ",":"," ","A","V","C">> }

MaxLinesTwo == 2

SpecTwoCalls ==
    /\ InitTwo(TextsOver(TwoCallLines, MaxLinesTwo) \X TextsOver(TwoCallLines, MaxLinesTwo))
    /\ [][NextParse]_vars

\* call c takes no part in the step
C5_Idle(c) == pos'[c] = pos[c] /\ pc'[c] = pc[c]

\* a step leaves the scan state and the report of every call that takes no
\* part in it as they are
C5_Isolated ==
    \A c \in Calls :
        C5_Idle(c) =>
            /\ currentSection'[CellOf(c)] = currentSection[CellOf(c)]
            /\ trackIndex'[CellOf(c)] = trackIndex[CellOf(c)]
            /\ result'[CellOf(c)] = result[CellOf(c)]

C5_SameTextSameReport ==
    (pc[1] = "done" /\ pc[2] = "done" /\ text[1] = text[2])
        => result[CellOf(1)] = result[CellOf(2)]

\* C5: two calls on the same text, run one after the other or interleaved,
\* return equal reports, and no call sees or alters the scan state or the
\* report of another.
C5_DeterministicAndIsolated == []C5_SameTextSameReport /\ [][C5_Isolated]_vars

\* two calls on the same text have both returned the one video track; two
\* calls on different texts are the other states of the specification
C5_Witness ==
    /\ pc[1] = "done"
    /\ pc[2] = "done"
    /\ text[1] = <<<<"V","i","d","e","o">>, <<"F","o","r","m","a","t"," ",":"," ","A","V","C">>>>
    /\ text[2] = text[1]
    /\ result[CellOf(1)].video = <<[format |-> <<"A","V","C">>]>>
    /\ result[CellOf(2)].video = <<[format |-> <<"A","V","C">>]>>

\* lines of a report with a block of every section
InsertLines ==
    { <<>>, <<"G","e","n","e","r","a","l">>, <<"V","i","d","e","o">>, <<"A","u","d","i","o">>, <<"T","e","x","t">>, <<"M","e","n","u">>,
      <<"F","o","r","m","a","t"," ",":"," ","A","V","C">>, <<"0","0",":","2","3",":","5","0",".","0","0","0"," ",":"," ","e","n",":","C","h","a","p","t","e","r"," ","5">> }

\* lines 'UnknownKey : value': the key is in no section's vocabulary
UnknownKeyLines ==
    { <<"U","n","k","n","o","w","n","K","e","y"," ",":"," ","v","a","l","u","e">>, <<"U","n","k","n","o","w","n","K","e","y"," "," "," "," "," "," "," "," "," "," "," "," "," "," "," "," "," "," "," "," "," "," "," "," "," "," "," "," "," "," "," ",":"," ","1",".","5","0"," ","G","i","B">>,
      <<"U","n","k","n","o","w","n","K","e","y"," ",":"," ","0","0",":","0","0",":","0","1",".","0","0","0"," ",":"," ","e","n",":","X">> }

MaxInsertLines == 2

\* index p of the text lies inside a section's block: a header comes before
\* it, with no blank line and no other header in between
InBlockAt(t, p) ==
    \E h \in 1..(p - 1) : IsHeaderLine(t[h]) /\ p <= BlockEnd(t, h)

\* the text with a line inserted before index p
InsertAt(t, p, line) == SubSeq(t, 1, p - 1) \o <<line>> \o SubSeq(t, p, Len(t))

\* call 1 reads a text, call 2 the same text with an unknown-key line
\* inserted inside a block
InsertPairs ==
    { <<t, InsertAt(t, p, u)>> :
        <<t, p, u>> \in { x \in TextsOver(InsertLines, MaxInsertLines)
                                  \X (2..(MaxInsertLines + 1)) \X UnknownKeyLines :
                              x[2] <= Len(x[1]) + 1 /\ InBlockAt(x[1], x[2]) } }

SpecInsert == InitTwo(InsertPairs) /\ [][NextParse]_vars

\* C2: a line 'UnknownKey : value' inserted inside the block of any section
\* (General, Video, Audio, Text, Menu) leaves the report as it is without
\* the line, and raises no error.
C2_UnknownKeyChangesNothing ==
    /\ pc[2] # "error"
    /\ (pc[1] = "done" /\ pc[2] = "done") => result[CellOf(1)] = result[CellOf(2)]

-----------------------------------------------------------------------------
(* Claims about the chapters of the Menu section *)

\* lines of a Menu block: chapters with one and with several colons after
\* the separator, three-digit hours, four-digit milliseconds, a comma before
\* the milliseconds, no colon after the separator
MenuLines ==
    { <<>>, <<"M","e","n","u">>,
      <<"0","0",":","2","3",":","5","0",".","0","0","0"," ",":"," ","e","n",":","C","h","a","p","t","e","r"," ","5">>,
      <<"0","0",":","0","1",":","0","0",".","0","0","0"," ",":"," ","e","n",":","P","a","r","t"," ","1",":"," ","I","n","t","r","o"," ">>,
      <<"1","0","0",":","2","3",":","5","0",".","0","0","0"," ",":"," ","e","n",":","X">>,
      <<"0","0",":","2","3",":","5","0",".","0","0","0","0"," ",":"," ","e","n",":","X">>,
      <<"0","0",":","2","3",":","5","0",",","0","0","0"," ",":"," ","e","n",":","X">>,
      <<"0","0",":","2","3",":","5","0",".","0","0","0"," ",":"," ","C","h","a","p","t","e","r">> }

SpecMenu == InitOne(TextsOver(MenuLines, MaxLines)) /\ [][NextParse]_vars

\* the line starts with HH:MM:SS.mmm, two digits, two digits, two digits, a
\* period and three digits, followed by ' : '
HasStampAndSeparator(line) ==
    /\ Len(line) >= 15
    /\ \A k \in {1, 2, 4, 5, 7, 8, 10, 11, 12} : IsDigit(line[k])
    /\ line[3] = ":"
    /\ line[6] = ":"
    /\ line[9] = "."
    /\ SubSeq(line, 13, 15) = <<" ",":"," ">>

\* the line has the shape 'HH:MM:SS.mmm : <text>' with a colon in the text
IsChapterLine(line) == HasStampAndSeparator(line) /\ ColonsFrom(line, 16) # {}

Max(S) == CHOOSE x \in S : \A y \in S : y <= x

\* the loop of call 1 has just handled a chapter line inside a Menu block
C11_JustHandled ==
    /\ pc[1] = "loop"
    /\ pos[1] > 1
    /\ currentSection[CellOf(1)] = <<"m","e","n","u">>
    /\ IsChapterLine(text[1][pos[1] - 1])

C11_Line == text[1][pos[1] - 1]

C11_LastChapter == result[CellOf(1)].menu[Len(result[CellOf(1)].menu)]

\* C11 as stated: for a Menu line 'HH:MM:SS.mmm : <text>' whose text holds one
\* or more colons, the title of the chapter is the text after the last colon
\* of the line, trimmed.
C11_TitleAfterLastColon ==
    C11_JustHandled =>
        /\ Len(result[CellOf(1)].menu) >= 1
        /\ C11_LastChapter.title
               = Trim(SubSeq(C11_Line, Max(ColonsFrom(C11_Line, 1)) + 1, Len(C11_Line)))

\* C11 amended: for a Menu line 'HH:MM:SS.mmm : <text>' whose text holds one
\* or more colons, the title of the chapter is the text after the first colon
\* that follows the ' : ' separator, trimmed; further colons stay in the title.
C11_TitleAfterFirstColon ==
    C11_JustHandled =>
        /\ Len(result[CellOf(1)].menu) >= 1
        /\ C11_LastChapter.title
               = Trim(SubSeq(C11_Line, Min(ColonsFrom(C11_Line, 16)) + 1, Len(C11_Line)))

\* '00:01:00.000 : en:Part 1: Intro ' gives the title 'Part 1: Intro'
C11_Witness ==
    /\ C11_JustHandled
    /\ C11_Line = <<"0","0",":","0","1",":","0","0",".","0","0","0"," ",":"," ","e","n",":","P","a","r","t"," ","1",":"," ","I","n","t","r","o"," ">>
    /\ C11_LastChapter.title = <<"P","a","r","t"," ","1",":"," ","I","n","t","r","o">>

\* HH * 3600000 + MM * 60000 + SS * 1000 + mmm of a line that starts with a
\* timestamp
C12_Millis(line) ==
    C7_IntOf(SubSeq(line, 1, 2)) * 3600000 + C7_IntOf(SubSeq(line, 4, 5)) * 60000
        + C7_IntOf(SubSeq(line, 7, 8)) * 1000 + C7_IntOf(SubSeq(line, 10, 12))

\* a step that handles a chapter line in a Menu block appends one chapter
\* with the timestamp of the line; no step removes or reorders chapters
C12_Appends ==
    LET menu == result[CellOf(1)].menu
    IN  /\ Len(result'[CellOf(1)].menu) >= Len(menu)
        /\ SubSeq(result'[CellOf(1)].menu, 1, Len(menu)) = menu
        /\ (InLoop(1) /\ currentSection[CellOf(1)] = <<"m","e","n","u">> /\ IsChapterLine(Line(1)))
               => /\ Len(result'[CellOf(1)].menu) = Len(menu) + 1
                  /\ result'[CellOf(1)].menu[Len(menu) + 1].timestamp
                         = Integer(C12_Millis(Line(1)))

\* C12: every Menu line 'HH:MM:SS.mmm : <label>:<title>' appends exactly one
\* chapter with timestamp HH * 3600000 + MM * 60000 + SS * 1000 + mmm, and the
\* chapters keep the order of their lines.
C12_OneChapterPerLineInOrder == [][C12_Appends]_vars

\* 'Menu', '00:23:50.000 : en:Chapter 5' and a second chapter line: two
\* chapters in the order of the lines, the first at 1430000 ms
C12_Witness ==
    /\ pc[1] = "done"
    /\ text[1] = <<<<"M","e","n","u">>, <<"0","0",":","2","3",":","5","0",".","0","0","0"," ",":"," ","e","n",":","C","h","a","p","t","e","r"," ","5">>,
                   <<"0","0",":","0","1",":","0","0",".","0","0","0"," ",":"," ","e","n",":","P","a","r","t"," ","1",":"," ","I","n","t","r","o"," ">>>>
    /\ result[CellOf(1)].menu
           = <<[timestamp |-> Integer(1430000), title |-> <<"C","h","a","p","t","e","r"," ","5">>],
               [timestamp |-> Integer(60000), title |-> <<"P","a","r","t"," ","1",":"," ","I","n","t","r","o">>]>>

-----------------------------------------------------------------------------
(* Claims about the README sample and the pixel counts *)

\* the lines of the text of the README's Basic Usage sample
ReadmeSample ==
    << <<>>,
       <<"G","e","n","e","r","a","l">>,
       <<"C","o","m","p","l","e","t","e"," ","n","a","m","e"," "," "," "," "," "," "," "," "," "," "," "," "," "," "," "," "," "," "," "," "," "," "," "," "," "," "," "," ",":"," ","/","p","a","t","h","/","t","o","/","v","i","d","e","o",".","m","p","4">>,
       <<"F","o","r","m","a","t"," "," "," "," "," "," "," "," "," "," "," "," "," "," "," "," "," "," "," "," "," "," "," "," "," "," "," "," "," "," "," "," "," "," "," ",":"," ","M","P","E","G","-","4">>,
       <<"F","i","l","e"," ","s","i","z","e"," "," "," "," "," "," "," "," "," "," "," "," "," "," "," "," "," "," "," "," "," "," "," "," "," "," "," "," "," "," "," "," ",":"," ","1",".","5","0"," ","G","i","B">>,
       <<"D","u","r","a","t","i","o","n"," "," "," "," "," "," "," "," "," "," "," "," "," "," "," "," "," "," "," "," "," "," "," "," "," "," "," "," "," "," "," "," "," ",":"," ","1"," ","h"," ","4","5"," ","m","i","n"," ","3","0"," ","s">>,
       <<>>,
       <<"V","i","d","e","o">>,
       <<"F","o","r","m","a","t"," "," "," "," "," "," "," "," "," "," "," "," "," "," "," "," "," "," "," "," "," "," "," "," "," "," "," "," "," "," "," "," "," "," "," ",":"," ","A","V","C">>,
       <<"W","i","d","t","h"," "," "," "," "," "," "," "," "," "," "," "," "," "," "," "," "," "," "," "," "," "," "," "," "," "," "," "," "," "," "," "," "," "," "," "," ",":"," ","1"," ","9","2","0"," ","p","i","x","e","l","s">>,
       <<"H","e","i","g","h","t"," "," "," "," "," "," "," "," "," "," "," "," "," "," "," "," "," "," "," "," "," "," "," "," "," "," "," "," "," "," "," "," "," "," "," ",":"," ","1"," ","0","8","0"," ","p","i","x","e","l","s">>,
       <<"F","r","a","m","e"," ","r","a","t","e"," "," "," "," "," "," "," "," "," "," "," "," "," "," "," "," "," "," "," "," "," "," "," "," "," "," "," "," "," "," "," ",":"," ","2","3",".","9","7","6"," ","F","P","S">>,
       <<>> >>

\* values of Width and Height lines: digit groups and a unit word
PixelValues ==
    { <<"1"," ","9","2","0"," ","p","i","x","e","l","s">>, <<"1"," ","0","8","0"," ","p","i","x","e","l","s">>, <<"7","2","0"," ","p","i","x","e","l","s">>, <<"3"," ","8","4","0"," ","p","i","x","e","l","s">>, <<"1","0"," ","0","0","0"," ","0","0","0"," ","p","i","x","e","l","s">> }

\* a Video block with a width and a height, alone or after a Menu block
PixelTexts ==
    { pre \o <<<<"V","i","d","e","o">>, <<"W","i","d","t","h"," ",":"," ">> \o w, <<"H","e","i","g","h","t"," "," "," "," "," "," "," "," "," "," "," "," "," "," "," "," "," "," "," "," "," "," "," "," "," "," "," "," "," "," "," "," "," "," "," ",":"," ">> \o h>> :
        pre \in { <<>>, <<<<"M","e","n","u">>, <<"0","0",":","2","3",":","5","0",".","0","0","0"," ",":"," ","e","n",":","C","h","a","p","t","e","r"," ","5">>>> },
        w \in PixelValues, h \in PixelValues }

SpecSample == InitOne(PixelTexts \cup {ReadmeSample}) /\ [][NextParse]_vars

\* the digits of a value, in their order
C13_Digits(value) == SelectSeq(value, IsDigit)

\* the video track of the text has the width and height its lines write
C13_PixelsOf(track, t) ==
    \A i \in 1..Len(t) :
        LET kv == KeyValueMatch(t[i])
        IN  /\ (kv.def /\ kv.key = <<"W","i","d","t","h">>)
                   => ("width" \in DOMAIN track
                       /\ track["width"] = Integer(C7_IntOf(C13_Digits(kv.value))))
            /\ (kv.def /\ kv.key = <<"H","e","i","g","h","t">>)
                   => ("height" \in DOMAIN track
                       /\ track["height"] = Integer(C7_IntOf(C13_Digits(kv.value))))

\* C13: a 'Width' or 'Height' value of a video track made of digit groups
\* separated by white space and followed by a unit word is stored as the
\* integer the concatenated digit groups write; the README sample gives
\* completeName '/path/to/video.mp4', fileSize 1610612736, duration 6330000,
\* width 1920 and height 1080.
C13_PixelsAndSample ==
    pc[1] = "done" =>
        /\ Len(result[CellOf(1)].video) = 1
        /\ C13_PixelsOf(result[CellOf(1)].video[1], text[1])
        /\ text[1] = ReadmeSample =>
               /\ result[CellOf(1)].general["completeName"] = <<"/","p","a","t","h","/","t","o","/","v","i","d","e","o",".","m","p","4">>
               /\ result[CellOf(1)].general["fileSize"] = Integer(1610612736)
               /\ result[CellOf(1)].general["duration"] = Integer(6330000)
               /\ result[CellOf(1)].video[1]["width"] = Integer(1920)
               /\ result[CellOf(1)].video[1]["height"] = Integer(1080)

\* the README sample parsed to the end, with a width of 1920
C13_Witness ==
    /\ pc[1] = "done"
    /\ text[1] = ReadmeSample
    /\ result[CellOf(1)].video[1]["width"] = Integer(1920)
    /\ result[CellOf(1)].general["fileSize"] = Integer(1610612736)

-----------------------------------------------------------------------------
(* Claims about the scan state *)

\* lines of a report with blank lines, blocks of every kind, key-value lines
\* and a chapter line
ScanLines ==
    { <<>>, <<" "," ">>, <<"G","e","n","e","r","a","l">>, <<"V","i","d","e","o">>, <<"A","u","d","i","o"," ","#","1">>, <<"M","e","n","u">>,
      <<"F","o","r","m","a","t"," ",":"," ","A","V","C">>, <<"I","D"," ",":"," ","2">>, <<"0","0",":","2","3",":","5","0",".","0","0","0"," ",":"," ","e","n",":","C","h","a","p","t","e","r"," ","5">> }

SpecScan == InitOne(TextsOver(ScanLines, MaxLines)) /\ [][NextParse]_vars

\* index p of the text lies in no block: no header before it, or a blank
\* line between the last header before it and p
OutsideBlocks(t, p) ==
    ~\E h \in 1..(p - 1) : IsHeaderLine(t[h]) /\ p < BlockEnd(t, h)

\* a step on a blank line changes nothing but the current section, which it
\* resets; a step on a line that is no header and lies in no block changes
\* nothing of the report
C14_Step ==
    /\ (InLoop(1) /\ IsBlank(Line(1)))
           => /\ currentSection'[CellOf(1)] = <<>>
              /\ result' = result
              /\ trackIndex' = trackIndex
    /\ (InLoop(1) /\ ~IsBlank(Line(1)) /\ ~IsHeaderLine(Line(1))
            /\ OutsideBlocks(text[1], pos[1]))
           => /\ currentSection[CellOf(1)] = <<>>
              /\ result' = result

\* C14: a blank (white-space-only) line resets the current section to ''
\* and changes nothing else; every key-value or chapter-shaped line between a
\* blank line and the next header, or before the first header, changes no
\* field, no track sequence and no chapter sequence.
C14_BlankLineEndsBlock == [][C14_Step]_vars

\* 'ID : 2' after the blank line that ends the Video block: the track has
\* no id
C14_Witness ==
    /\ pc[1] = "loop"
    /\ text[1] = <<<<"V","i","d","e","o">>, <<" "," ">>, <<"I","D"," ",":"," ","2">>>>
    /\ pos[1] = 4
    /\ currentSection[CellOf(1)] = <<>>
    /\ result[CellOf(1)].video = <<<<>>>>

\* the tracks a step changes: pairs <<kind, index>>
C16_Changed ==
    { ki \in UNION { { <<kind, i>> : i \in 1..Len(Tracks(result[CellOf(1)], kind[2])) } :
                       kind \in C1_Kinds } :
        \/ ki[2] > Len(Tracks(result'[CellOf(1)], ki[1][2]))
        \/ Tracks(result'[CellOf(1)], ki[1][2])[ki[2]] # Tracks(result[CellOf(1)], ki[1][2])[ki[2]] }

\* a step changes at most one track; the track it changes is the last of the
\* kind of the current section, and the line it handles lies in the block of
\* the header that made the track
C16_Step ==
    /\ Cardinality(C16_Changed) <= 1
    /\ \A ki \in C16_Changed :
           LET h == NthOf(HeaderLines(text[1], ki[1][1]), ki[2])
           IN  /\ ki[2] = Len(Tracks(result[CellOf(1)], ki[1][2]))
               /\ ki[2] <= Len(Tracks(result'[CellOf(1)], ki[1][2]))
               /\ currentSection[CellOf(1)] = ki[1][2]
               /\ InLoop(1)
               /\ h < pos[1]
               /\ pos[1] < BlockEnd(text[1], h)

\* C16: once a blank line or a later header has been handled after the header
\* of a track, no line changes the track; a step changes at most one track,
\* the last of the sequence of the current section's kind; tracks are never
\* removed or reordered.
C16_TracksSealed == [][C16_Step]_vars

\* the Video track got its id in its own block and kept it while the Audio
\* block that follows set the same key
C16_Witness ==
    /\ pc[1] = "done"
    /\ text[1] = <<<<"V","i","d","e","o">>, <<"I","D"," ",":"," ","2">>, <<"A","u","d","i","o"," ","#","1">>, <<"F","o","r","m","a","t"," ",":"," ","A","V","C">>>>
    /\ DOMAIN result[CellOf(1)].video[1] = {"id"}
    /\ DOMAIN result[CellOf(1)].audio[1] = {"format"}

\* the chapters grow only in the menu section; in the menu section a line
\* that is no header changes neither the general record nor a track
C17_Step ==
    /\ result'[CellOf(1)].menu # result[CellOf(1)].menu
           => (InLoop(1) /\ currentSection[CellOf(1)] = <<"m","e","n","u">>)
    /\ (InLoop(1) /\ currentSection[CellOf(1)] = <<"m","e","n","u">> /\ ~IsHeaderLine(Line(1)))
           => /\ result'[CellOf(1)].general = result[CellOf(1)].general
              /\ result'[CellOf(1)].video = result[CellOf(1)].video
              /\ result'[CellOf(1)].audio = result[CellOf(1)].audio
              /\ result'[CellOf(1)].text = result[CellOf(1)].text

\* C17: the chapter sequence grows only while the current section is 'menu'
\* (a timestamp-shaped line elsewhere appends nothing), and while the current
\* section is 'menu' no line of the block, a 'key : value' line with a key of
\* another section included, changes the general record or a track or the
\* length of a track sequence.
C17_ChaptersOnlyInMenu == [][C17_Step]_vars

\* a chapter line in a Video block and a 'Format' line in a Menu block: no
\* chapter, no field
C17_Witness ==
    /\ pc[1] = "done"
    /\ text[1] = <<<<"V","i","d","e","o">>, <<"0","0",":","2","3",":","5","0",".","0","0","0"," ",":"," ","e","n",":","C","h","a","p","t","e","r"," ","5">>, <<"M","e","n","u">>, <<"F","o","r","m","a","t"," ",":"," ","A","V","C">>>>
    /\ result[CellOf(1)].menu = <<>>
    /\ result[CellOf(1)].video = <<<<>>>>
    /\ result[CellOf(1)].general = <<>>

\* the track index fits the current section
C18_IndexFitsSection ==
    LET m == CellOf(1)
    IN  /\ currentSection[m] \in TrackSections
            => /\ trackIndex[m] = Len(Tracks(result[m], currentSection[m])) - 1
               /\ trackIndex[m] >= 0
        /\ currentSection[m] \in { <<"g","e","n","e","r","a","l">>, <<"m","e","n","u">> } => trackIndex[m] = -1

\* a key-value line handled while the current section is '' changes nothing
C18_NoOpOutside ==
    (InLoop(1) /\ currentSection[CellOf(1)] = <<>> /\ KeyValueMatch(Line(1)).def
        /\ ~IsHeaderLine(Line(1)))
        => result' = result

\* C18: after every handled line, in a video, audio or text section the
\* track index is the length of the section's sequence minus one and not
\* negative; in the general and menu sections it is -1; a key-value line is
\* a no-op while the current section is ''.
C18_ScanStateInvariant == []C18_IndexFitsSection /\ [][C18_NoOpOutside]_vars

\* in the second Audio block the index is 1, the last of two tracks
C18_Witness ==
    /\ pc[1] = "loop"
    /\ currentSection[CellOf(1)] = <<"a","u","d","i","o">>
    /\ trackIndex[CellOf(1)] = 1
    /\ Len(result[CellOf(1)].audio) = 2

====
